---- MODULE Spec2Model ----
(***************************************************************************)
(* Model of Src/Modelo_Seleccion_Region_OilGas.py: per-region linear       *)
(* regression, top-well profit calculation, bootstrap of the profit and    *)
(* the summary table printed by main.                                      *)
(*                                                                         *)
(* A pandas Series is a sequence of rows [idx |-> label, val |-> value].   *)
(* Product volumes, predictions and money amounts are integers; a mean, a  *)
(* percentile and the risk are kept as exact fractions [num, den].         *)
(***************************************************************************)
EXTENDS Integers, Sequences, FiniteSets

\* ------------------------------------------------------------------ bounds
\* Values the parameters of the functions take in the model. The defaults of
\* the script (BUDGET, REVENUE_PER_THOUSAND_BARRELS, N_WELLS_PER_REGION,
\* N_TOP_WELLS, N_BOOTSTRAP_ITER) are far beyond exhaustive enumeration.
Budget == 6
RevenuePerUnit == 3
NWellsInSample == 2
NTopWells == 1
NIter == 2
\* money amounts are counted in 1/UnitsPerCent of a cent
UnitsPerCent == 4
\* rows of a region's file, and wells of a direct call of calculate_profit
MaxRows == 6
MaxLen == 3

RANDOM_STATE == 12345

ProductVals == {1, 2, 3}
FeatureVals == {0, 1}
\* the two tie orders a sort that is not stable may produce
TieOrders == {"keep", "reverse"}

\* ----------------------------------------------------------- pandas Series
Min(a, b) == IF a <= b THEN a ELSE b

Index(s) == [i \in 1..Len(s) |-> s[i].idx]

Values(s) == [i \in 1..Len(s) |-> s[i].val]

Labels(s) == {s[i].idx : i \in 1..Len(s)}

RECURSIVE SumSeq(_)
SumSeq(q) == IF q = <<>> THEN 0 ELSE Head(q) + SumSeq(Tail(q))

\* Series(values, index=index)
MakeSeries(values, index) == [i \in 1..Len(index) |-> [idx |-> index[i], val |-> values[i]]]

RowsOf(s, label) == SelectSeq(s, LAMBDA row : row.idx = label)

\* s.loc[labels]: for each requested label, in the order requested, every row
\* of s carrying that label
\* s.iloc[labels]: the rows at the given positions
loc_by_position(s, labels) == [i \in 1..Len(labels) |-> s[labels[i]]]

RECURSIVE loc(_, _)
loc(s, labels) ==
    IF labels = <<>> THEN <<>>
    ELSE RowsOf(s, Head(labels)) \o loc(s, Tail(labels))

\* s.loc[labels] raises KeyError when a requested label is not in the index
LocOk(s, labels) == \A i \in 1..Len(labels) : labels[i] \in Labels(s)

\* row p comes before row q in s.sort_values(ascending=False)
Before(s, ties, p, q) ==
    \/ s[p].val > s[q].val
    \/ /\ s[p].val = s[q].val
       /\ IF ties = "keep" THEN p < q ELSE p > q

sort_values(s, ties) ==
    [k \in 1..Len(s) |->
        s[CHOOSE p \in 1..Len(s) :
            Cardinality({q \in 1..Len(s) : Before(s, ties, q, p)}) = k - 1]]

head(s, n) == SubSeq(s, 1, Min(n, Len(s)))

\* ------------------------------------------------------- calculate_profit
selected_idx_lowest(predictions_valid, n_top_wells, ties) ==
    LET order == sort_values(predictions_valid, ties)
    IN  Index(SubSeq(order, Len(order) - Min(n_top_wells, Len(order)) + 1, Len(order)))

selected_idx(predictions_valid, n_top_wells, ties) ==
    LET order == sort_values(predictions_valid, ties)
    IN  Index(head(order, n_top_wells))

\* the rows of target_valid whose values are added up
selected_rows(target_valid, predictions_valid, n_top_wells, ties) ==
    loc(target_valid, selected_idx(predictions_valid, n_top_wells, ties))

calculate_profit(target_valid, predictions_valid, budget, revenue_per_unit, n_top_wells, ties) ==
    LET total_product == SumSeq(Values(selected_rows(target_valid, predictions_valid, n_top_wells, ties)))
        revenue == total_product * revenue_per_unit
    IN  revenue - budget

\* ------------------------------------------------------- bootstrap_profit
\* for _ in range(n_iter): the loop runs while fewer than n_iter profits
\* have been appended
loop_continues_once_more(profits_, n_iter) == Len(profits_) < n_iter + 1

loop_continues(profits_, n_iter) == Len(profits_) < n_iter

\* rng.choice(indices, size=..., replace=True), given the positions drawn
choice(indices_, positions) == [i \in 1..Len(positions) |-> indices_[positions[i]]]

is_loss_or_zero(p) == p <= 0

\* profits < 0
is_loss(p) == p < 0

RECURSIVE SortAsc(_)
SortAsc(q) ==
    IF q = <<>> THEN <<>>
    ELSE LET m == CHOOSE i \in 1..Len(q) : \A j \in 1..Len(q) : q[i] <= q[j]
         IN  <<q[m]>> \o SortAsc(SubSeq(q, 1, m - 1) \o SubSeq(q, m + 1, Len(q)))

\* np.percentile(a, q) with linear interpolation, q given in tenths of a
\* percent; the result is the fraction num / 1000
percentile(a, q10) ==
    LET srt == SortAsc(a)
        pos == (Len(a) - 1) * q10
        lo  == (pos \div 1000) + 1
        hi  == Min(lo + 1, Len(a))
    IN  [num |-> 1000 * srt[lo] + (pos % 1000) * (srt[hi] - srt[lo]), den |-> 1000]

\* profits.mean()
mean(a) == [num |-> SumSeq(a), den |-> Len(a)]

\* (profits < 0).mean()
risk_of(a) == [num |-> Cardinality({i \in 1..Len(a) : is_loss(a[i])}), den |-> Len(a)]

\* the dictionary bootstrap_profit returns
bootstrap_stats(profits_) ==
    [mean_profit |-> mean(profits_),
     ci_low      |-> percentile(profits_, 25),
     ci_high     |-> percentile(profits_, 975),
     risk        |-> risk_of(profits_),
     profits     |-> profits_]

\* ------------------------------------------------------------ train_region
\* A DataFrame of a region: n rows labelled 1..n (read_csv labels them
\* 0..n-1), a feature column f and the product column. The three feature
\* columns f0, f1, f2 are one value here.
RECURSIVE PermsOf(_)
PermsOf(S) ==
    IF S = {} THEN {<<>>}
    ELSE UNION {{<<x>> \o q : q \in PermsOf(S \ {x})} : x \in S}

\* the orders a shuffle of n rows may produce
Shuffles == [n \in 0..MaxRows |-> PermsOf(1..n)]

n_test_floor(n) == n \div 4

\* train_test_split(test_size=0.25): the number of validation rows,
\* ceil(0.25 * n)
n_test(n) == (n + 3) \div 4

\* train_test_split: the rows are shuffled (perm, drawn from random_state),
\* the first n_test of them are the validation rows and the others the
\* training rows
train_test_split(n, perm) ==
    [valid |-> SubSeq(perm, 1, n_test(n)), train |-> SubSeq(perm, n_test(n) + 1, n)]

\* a column of df restricted to the rows index, in that order
take(column, index) == MakeSeries([i \in 1..Len(index) |-> column[index[i]]], index)

\* LinearRegression().fit(features_train, target_train) for one feature: the
\* least-squares line through the training rows, kept exactly as
\*     prediction(f) = (base + slope * f) / den        with den > 0
\* (slope 0 and the mean of the target when the feature does not vary).
\* fit_index records the rows the fit has read.
ols(features, target) ==
    LET n   == Len(features)
        sf  == SumSeq(Values(features))
        sy  == SumSeq(Values(target))
        sff == SumSeq([i \in 1..n |-> features[i].val * features[i].val])
        sfy == SumSeq([i \in 1..n |-> features[i].val * target[i].val])
        v   == n * sff - sf * sf
        c   == n * sfy - sf * sy
    IN  IF v = 0 THEN [base |-> sy, slope |-> 0, den |-> n]
        ELSE [base |-> sy * v - c * sf, slope |-> n * c, den |-> n * v]

fit(features_train, target_train, df) ==
    LET m == ols(features_train, target_train)
    IN  [base |-> m.base, slope |-> m.slope, den |-> m.den, fit_index |-> Labels(features_train)]

\* model.predict(features): one prediction per row, in the order of the rows,
\* each as its numerator over model.den
predict(model, features) == [i \in 1..Len(features) |-> model.base + model.slope * features[i].val]

\* pd.Series(model.predict(features_valid), index=target_valid.index)
preds_series(values, target_valid) == MakeSeries(values, Index(target_valid))

\* the dictionary train_region returns; preds_valid holds the numerators of
\* the predictions over pred_den (rmse and r2 are metrics that are only
\* printed and are left out)
train_region(df, region_name, perm) ==
    LET sp             == train_test_split(df.n, perm)
        features_train == take(df.f, sp.train)
        target_train   == take(df.product, sp.train)
        features_valid == take(df.f, sp.valid)
        target_valid   == take(df.product, sp.valid)
        model          == fit(features_train, target_train, df)
        preds_valid    == preds_series(predict(model, features_valid), target_valid)
    IN  [region         |-> region_name,
         model          |-> model,
         features_valid |-> features_valid,
         target_valid   |-> target_valid,
         preds_valid    |-> preds_valid,
         pred_den       |-> model.den,
         mean_pred      |-> [num |-> SumSeq(Values(preds_valid)), den |-> Len(preds_valid) * model.den]]

\* ------------------------------------------------------------- the summary
\* num / den rounded to the nearest integer, halves to the even one
RoundHalfEven(num, den) ==
    LET q == num \div den
        r == num % den
    IN  IF 2 * r < den THEN q
        ELSE IF 2 * r > den THEN q + 1
        ELSE IF q % 2 = 0 THEN q ELSE q + 1

\* a row of summary_rows
summary_row(region_name, stats) ==
    [region   |-> region_name,
     mean     |-> stats.mean_profit,
     ci_low   |-> stats.ci_low,
     ci_high  |-> stats.ci_high,
     risk_pct |-> [num |-> stats.risk.num * 100, den |-> stats.risk.den]]

\* DataFrame.round(2) of a row: money in whole cents, the risk in hundredths
\* of a percent
round2(row) ==
    [region   |-> row.region,
     mean     |-> RoundHalfEven(row.mean.num, row.mean.den * UnitsPerCent),
     ci_low   |-> RoundHalfEven(row.ci_low.num, row.ci_low.den * UnitsPerCent),
     ci_high  |-> RoundHalfEven(row.ci_high.num, row.ci_high.den * UnitsPerCent),
     risk_pct |-> RoundHalfEven(row.risk_pct.num * 100, row.risk_pct.den)]

report_unsorted(rows, ties) == [i \in 1..Len(rows) |-> round2(rows[i])]

\* summary_df.round(2).sort_values("Beneficio promedio (USD)", ascending=False)
report(rows, ties) ==
    LET rounded == [i \in 1..Len(rows) |-> round2(rows[i])]
        by_mean == sort_values([i \in 1..Len(rows) |-> [idx |-> i, val |-> rounded[i].mean]], ties)
    IN  [k \in 1..Len(rows) |-> rounded[by_mean[k].idx]]

\* ------------------------------------------------------------------- state
VARIABLES
    sort_ties,      \* how this build's sort orders equal keys
    stream,         \* what a generator seeded with a given seed draws: key
                    \* <<seed, len(indices)>> |-> the samples (as positions) in
                    \* the order drawn, as far as they have been observed
    shuffle,        \* what train_test_split draws: key <<random_state, n>> |->
                    \* the validation rows, once observed
    cp_state,       \* calculate_profit called directly: "call", then "ret"
    cp_target,      \*   target_valid
    cp_pred,        \*   predictions_valid
    cp_n_top,       \*   n_top_wells
    cp_profit,      \*   the value returned
    tr_state,       \* train_region called directly: "call", then "ret"
    tr_df,          \*   df
    tr_split,       \*   the training and validation rows of the split
    tr_ret,         \*   the dictionary returned
    bp_state,       \* bootstrap_profit: "idle", "loop" or "ret"
    bp_target,      \*   target_valid
    bp_pred,        \*   predictions_valid
    bp_seed,        \*   random_state
    rng,            \*   number of samples drawn from rng since it was seeded
    indices,        \*   target_valid.index.to_numpy()
    profits,        \*   the list of profits
    sample_idx,     \*   the last iteration's sample_idx
    sample_target,  \*   the last iteration's sample_target
    sample_pred,    \*   the last iteration's sample_pred
    samples,        \*   every sample_idx of this call, in order
    bp_ret,         \*   the dictionary returned
    pc,             \* main: "off", "load", "train", "bootstrap", "report", "done"
    data_by_region, \*   the DataFrames loaded, in the order of the dictionary
    region_results, \*   the list of train_region's results
    summary_rows,   \*   the list of summary rows
    printed,        \*   the table printed last
    count,          \*   how often each stage has run
    boot_log        \*   arguments, samples and result of each bootstrap_profit call

env_vars == <<sort_ties, stream, shuffle>>

cp_vars == <<cp_state, cp_target, cp_pred, cp_n_top, cp_profit>>

tr_vars == <<tr_state, tr_df, tr_split, tr_ret>>

bp_vars == <<bp_state, bp_target, bp_pred, bp_seed, rng, indices, profits,
             sample_idx, sample_target, sample_pred, samples, bp_ret>>

main_vars == <<pc, data_by_region, region_results, summary_rows, printed, count, boot_log>>

vars == <<env_vars, cp_vars, tr_vars, bp_vars, main_vars>>

PredVals == {1, 2}
ValidSizes == {1, 2}

\* the region names, in the order load_region_data puts them in the dictionary
RegionNames == <<"0", "1", "2">>

\* the contents the file of the r-th region may have
FileA == [n |-> 5, f |-> <<0, 1, 0, 1, 1>>, product |-> <<1, 3, 2, 2, 1>>]

FileB == [n |-> 5, f |-> <<1, 0, 0, 1, 0>>, product |-> <<2, 2, 3, 1, 2>>]

RegionFiles(r) == IF r = Len(RegionNames) THEN {FileB} ELSE {FileA, FileB}

\* the DataFrames train_region is called with directly
TrainFiles ==
    {[n |-> n, f |-> [i \in 1..n |-> (i + a) % 2], product |-> [i \in 1..n |-> ((i * b) % 3) + 1]] :
        n \in 2..MaxRows, a \in 0..1, b \in 1..2}

NoStats == [mean_profit |-> [num |-> 0, den |-> 1], ci_low |-> [num |-> 0, den |-> 1],
            ci_high |-> [num |-> 0, den |-> 1], risk |-> [num |-> 0, den |-> 1],
            profits |-> <<>>]

env_init ==
    /\ sort_ties \in TieOrders
    /\ stream = <<>>
    /\ shuffle = <<>>

cp_idle ==
    /\ cp_state = "idle"
    /\ cp_target = <<>>
    /\ cp_pred = <<>>
    /\ cp_n_top = 0
    /\ cp_profit = 0

tr_idle ==
    /\ tr_state = "idle"
    /\ tr_df = <<>>
    /\ tr_split = <<>>
    /\ tr_ret = <<>>

bp_idle ==
    /\ bp_state = "idle"
    /\ bp_target = <<>>
    /\ bp_pred = <<>>
    /\ bp_seed = RANDOM_STATE
    /\ rng = 0
    /\ indices = <<>>
    /\ profits = <<>>
    /\ sample_idx = <<>>
    /\ sample_target = <<>>
    /\ sample_pred = <<>>
    /\ samples = <<>>
    /\ bp_ret = NoStats

NoCount == [load |-> 0, train |-> [r \in 1..Len(RegionNames) |-> 0],
            boot |-> [r \in 1..Len(RegionNames) |-> 0]]

main_idle(at) ==
    /\ pc = at
    /\ data_by_region = <<>>
    /\ region_results = <<>>
    /\ summary_rows = <<>>
    /\ printed = <<>>
    /\ count = NoCount
    /\ boot_log = <<>>

\* ------------------------------------- a direct call of calculate_profit
\* target_valid carries the labels 1..k; predictions_valid carries the same
\* labels in any order.
InitCalc ==
    /\ env_init /\ tr_idle /\ bp_idle /\ main_idle("off")
    /\ \E k \in 0..MaxLen :
         /\ cp_target \in {MakeSeries(v, [i \in 1..k |-> i]) : v \in [1..k -> ProductVals]}
         /\ cp_pred \in {MakeSeries(v, p) : v \in [1..k -> PredVals], p \in PermsOf(1..k)}
    /\ cp_n_top \in 0..MaxLen
    /\ cp_state = "call"
    /\ cp_profit = 0

CalcCall ==
    /\ cp_state = "call"
    /\ LocOk(cp_target, selected_idx(cp_pred, cp_n_top, sort_ties))
    /\ cp_profit' = calculate_profit(cp_target, cp_pred, Budget, RevenuePerUnit, cp_n_top, sort_ties)
    /\ cp_state' = "ret"
    /\ UNCHANGED <<env_vars, cp_target, cp_pred, cp_n_top, tr_vars, bp_vars, main_vars>>

NextCalc == CalcCall

SpecCalc == InitCalc /\ [][NextCalc]_vars

\* ----------------------------------------- a direct call of train_region
InitTrain ==
    /\ env_init /\ cp_idle /\ bp_idle /\ main_idle("off")
    /\ tr_df \in TrainFiles
    /\ tr_state = "call"
    /\ tr_split = <<>>
    /\ tr_ret = <<>>

TrainCall ==
    /\ tr_state = "call"
    /\ \E perm \in Shuffles[tr_df.n] :
         /\ tr_split' = train_test_split(tr_df.n, perm)
         /\ tr_ret' = train_region(tr_df, "0", perm)
    /\ tr_state' = "ret"
    /\ UNCHANGED <<env_vars, tr_df, cp_vars, bp_vars, main_vars>>

NextTrain == TrainCall

SpecTrain == InitTrain /\ [][NextTrain]_vars

\* ------------------------------------------------- bootstrap_profit, steps
seed_kept(random_state, old_rng) == old_rng

\* np.random.default_rng(random_state): a generator at the start of the
\* stream of its seed
seed(random_state, old_rng) == 0

\* lines 121-124: seed the generator, take the index, start the list
BootEnter(target_valid, predictions_valid, random_state) ==
    /\ bp_target' = target_valid
    /\ bp_pred' = predictions_valid
    /\ bp_seed' = random_state
    /\ rng' = seed(random_state, rng)
    /\ indices' = Index(target_valid)
    /\ profits' = <<>>
    /\ sample_idx' = <<>>
    /\ sample_target' = <<>>
    /\ sample_pred' = <<>>
    /\ samples' = <<>>
    /\ bp_ret' = NoStats
    /\ bp_state' = "loop"

StreamKey == <<bp_seed, Len(indices)>>

Observed == IF StreamKey \in DOMAIN stream THEN stream[StreamKey] ELSE <<>>

\* the sample the generator draws next is positions, and no lookup of the
\* iteration raises KeyError
CanDraw(positions) ==
    /\ rng < Len(Observed) => positions = Observed[rng + 1]
    /\ LET s_idx == choice(indices, positions)
       IN  /\ LocOk(bp_target, s_idx) /\ LocOk(bp_pred, s_idx)
           /\ LocOk(loc(bp_target, s_idx),
                    selected_idx(loc(bp_pred, s_idx), NTopWells, sort_ties))

\* lines 126-139: one iteration of the loop
BootIter ==
    /\ bp_state = "loop"
    /\ loop_continues(profits, NIter)
    /\ Len(indices) > 0
    /\ \E positions \in [1..NWellsInSample -> 1..Len(indices)] :
         /\ CanDraw(positions)
         /\ stream' = IF rng < Len(Observed) THEN stream
                      ELSE [k \in DOMAIN stream \cup {StreamKey} |->
                              IF k = StreamKey THEN Append(Observed, positions) ELSE stream[k]]
         /\ LET s_idx    == choice(indices, positions)
                s_target == loc(bp_target, s_idx)
                s_pred   == loc(bp_pred, s_idx)
            IN  /\ sample_idx' = s_idx
                /\ sample_target' = s_target
                /\ sample_pred' = s_pred
                /\ samples' = Append(samples, s_idx)
                /\ profits' = Append(profits,
                       calculate_profit(s_target, s_pred, Budget, RevenuePerUnit, NTopWells, sort_ties))
    /\ rng' = rng + 1
    /\ UNCHANGED <<sort_ties, shuffle, cp_vars, tr_vars, main_vars,
                   bp_state, bp_target, bp_pred, bp_seed, indices, bp_ret>>

\* lines 141-152: the statistics and the return
BootFinish ==
    /\ bp_state = "loop"
    /\ ~loop_continues(profits, NIter)
    /\ bp_ret' = bootstrap_stats(profits)
    /\ bp_state' = "ret"
    /\ UNCHANGED <<env_vars, cp_vars, tr_vars, main_vars, bp_target, bp_pred, bp_seed, rng,
                   indices, profits, sample_idx, sample_target, sample_pred, samples>>

\* a direct call of bootstrap_profit with label-aligned arguments
InitBoot ==
    /\ env_init /\ cp_idle /\ tr_idle /\ main_idle("off")
    /\ \E k \in ValidSizes : \E p \in PermsOf(1..k) :
         /\ bp_target \in {MakeSeries(v, p) : v \in [1..k -> ProductVals]}
         /\ bp_pred \in {MakeSeries(v, p) : v \in [1..k -> PredVals]}
         /\ indices = p
    /\ bp_seed = RANDOM_STATE
    /\ rng = 0
    /\ profits = <<>>
    /\ sample_idx = <<>>
    /\ sample_target = <<>>
    /\ sample_pred = <<>>
    /\ samples = <<>>
    /\ bp_ret = NoStats
    /\ bp_state = "loop"

NextBoot == BootIter \/ BootFinish

SpecBoot == InitBoot /\ [][NextBoot]_vars

\* -------------------------------------------------------------------- main
Init == env_init /\ cp_idle /\ tr_idle /\ bp_idle /\ main_idle("load")

\* line 157: load_region_data reads the three files
Load ==
    /\ pc = "load"
    /\ data_by_region' \in {d \in [1..Len(RegionNames) -> {FileA, FileB}] :
                               \A r \in 1..Len(RegionNames) : d[r] \in RegionFiles(r)}
    /\ count' = [count EXCEPT !.load = @ + 1]
    /\ pc' = "train"
    /\ UNCHANGED <<env_vars, cp_vars, tr_vars, bp_vars, region_results, summary_rows,
                   printed, boot_log>>

\* the split train_test_split draws for n rows is that of perm: the one the
\* same random_state gave before for as many rows, if it gave one
CanSplit(n, perm) ==
    <<RANDOM_STATE, n>> \in DOMAIN shuffle
        => train_test_split(n, perm).valid = shuffle[<<RANDOM_STATE, n>>]

\* lines 163-171: one pass of the training loop; after the last region the
\* bootstrap loop is next
Train ==
    /\ pc = "train"
    /\ Len(region_results) < Len(data_by_region)
    /\ LET r   == Len(region_results) + 1
           df  == data_by_region[r]
           key == <<RANDOM_STATE, df.n>>
       IN  /\ \E perm \in Shuffles[df.n] :
                /\ CanSplit(df.n, perm)
                /\ shuffle' = [k \in DOMAIN shuffle \cup {key} |->
                                 IF k = key THEN train_test_split(df.n, perm).valid ELSE shuffle[k]]
                /\ region_results' = Append(region_results, train_region(df, RegionNames[r], perm))
           /\ count' = [count EXCEPT !.train[r] = @ + 1]
           /\ pc' = IF r = Len(data_by_region) THEN "bootstrap" ELSE "train"
    /\ UNCHANGED <<sort_ties, stream, cp_vars, tr_vars, bp_vars, data_by_region, summary_rows,
                   printed, boot_log>>

\* lines 177-181: bootstrap_profit is called for the next region's result,
\* with the default random_state
BootCall ==
    /\ pc = "bootstrap"
    /\ bp_state = "idle"
    /\ Len(summary_rows) < Len(region_results)
    /\ LET r   == Len(summary_rows) + 1
           res == region_results[r]
       IN  /\ BootEnter(res.target_valid, res.preds_valid, RANDOM_STATE)
           /\ count' = [count EXCEPT !.boot[r] = @ + 1]
    /\ UNCHANGED <<env_vars, cp_vars, tr_vars, pc, data_by_region, region_results,
                   summary_rows, printed, boot_log>>

\* lines 183-191: the row of the region is appended; after the last region
\* the report is next
Collect ==
    /\ pc = "bootstrap"
    /\ bp_state = "ret"
    /\ LET r == Len(summary_rows) + 1
       IN  /\ summary_rows' = Append(summary_rows, summary_row(region_results[r].region, bp_ret))
           /\ boot_log' = Append(boot_log,
                  [target |-> bp_target, pred |-> bp_pred, seed |-> bp_seed,
                   samples |-> samples, ret |-> bp_ret])
           /\ pc' = IF r = Len(region_results) THEN "report" ELSE "bootstrap"
    /\ bp_state' = "idle"
    /\ UNCHANGED <<env_vars, cp_vars, tr_vars, bp_target, bp_pred, bp_seed, rng, indices,
                   profits, sample_idx, sample_target, sample_pred, samples, bp_ret,
                   data_by_region, region_results, printed, count>>

\* lines 193-194: the table is rounded, sorted and printed
Report ==
    /\ pc = "report"
    /\ printed' = report(summary_rows, sort_ties)
    /\ pc' = "done"
    /\ UNCHANGED <<env_vars, cp_vars, tr_vars, bp_vars, data_by_region, region_results,
                   summary_rows, count, boot_log>>

Next == Load \/ Train \/ BootCall \/ BootIter \/ BootFinish \/ Collect \/ Report

Spec == Init /\ [][Next]_vars

\* ================================================================== claims
UniqueIndex(s) == \A i, j \in 1..Len(s) : s[i].idx = s[j].idx => i = j

\* the value of the one row of s labelled l
ValueAt(s, l) == s[CHOOSE i \in 1..Len(s) : s[i].idx = l].val

RECURSIVE SumOver(_, _)
SumOver(s, T) ==
    IF T = {} THEN 0
    ELSE LET l == CHOOSE x \in T : TRUE IN ValueAt(s, l) + SumOver(s, T \ {l})

\* T is a set of n wells with the highest predictions
IsTopSet(pred, T, n) ==
    /\ T \subseteq Labels(pred)
    /\ Cardinality(T) = n
    /\ \A a \in T : \A b \in Labels(pred) \ T : ValueAt(pred, a) >= ValueAt(pred, b)

\* C1: called with a target and predictions that carry the same distinct
\* labels, calculate_profit returns revenue_per_unit * S - budget, S being the
\* sum of the real values of exactly min(n_top_wells, number of wells) wells
\* with the highest predictions; the budget is subtracted once.
C1_TopWellProfit ==
    (/\ cp_state = "ret"
     /\ UniqueIndex(cp_target) /\ UniqueIndex(cp_pred)
     /\ Labels(cp_target) = Labels(cp_pred))
    => \E T \in SUBSET Labels(cp_pred) :
         /\ IsTopSet(cp_pred, T, Min(cp_n_top, Len(cp_pred)))
         /\ cp_profit = RevenuePerUnit * SumOver(cp_target, T) - Budget

C1_Witness ==
    /\ cp_state = "ret"
    /\ Len(cp_pred) = 3
    /\ cp_n_top = 2
    /\ Index(cp_pred) # Index(cp_target)
    /\ \E i, j \in 1..3 : cp_pred[i].val < cp_pred[j].val
    /\ \E i, j \in 1..3 : cp_target[i].val < cp_target[j].val
    /\ cp_profit > 0

\* an iteration of the bootstrap loop has run
IterationDone == bp_state = "loop" /\ Len(profits) > 0

\* C2: in every iteration the sample holds n_wells_in_sample draws and the
\* revenue adds up the real values of exactly n_top_wells of them (when
\* n_top_wells <= n_wells_in_sample), also when a well is drawn twice.
C2_ExactlyNTopSummed ==
    (IterationDone /\ NTopWells <= NWellsInSample)
    => /\ Len(sample_idx) = NWellsInSample
       /\ Len(sample_target) = NWellsInSample
       /\ Len(selected_rows(sample_target, sample_pred, NTopWells, sort_ties)) = NTopWells

\* C4: the risk returned is (number of profits < 0) / n_iter, lies in [0, 1],
\* does not count a profit of exactly 0, and is 0 exactly when no profit is
\* negative.
C4_RiskIsShareOfLosses ==
    bp_state = "ret"
    => LET neg == {i \in 1..Len(profits) : profits[i] < 0}
       IN  /\ Len(profits) = NIter
           /\ bp_ret.risk.den = NIter
           /\ bp_ret.risk.num = Cardinality(neg)
           /\ 0 <= bp_ret.risk.num /\ bp_ret.risk.num <= bp_ret.risk.den
           /\ (bp_ret.risk.num = 0 <=> neg = {})

C4_Witness ==
    /\ bp_state = "ret"
    /\ \E i, j \in 1..Len(profits) : profits[i] = 0 /\ profits[j] < 0
    /\ bp_ret.risk.num = 1

\* C8: with label-aligned arguments, in every iteration sample_pred and
\* sample_target hold n_wells_in_sample rows that refer, position by position,
\* to the same well with that well's own values, and every real value added
\* to the revenue is that of a well whose prediction is in the top selection.
C8_PairingKept ==
    (IterationDone /\ Index(bp_target) = Index(bp_pred))
    => /\ Len(sample_target) = NWellsInSample
       /\ Len(sample_pred) = NWellsInSample
       /\ \A i \in 1..NWellsInSample :
            /\ sample_target[i].idx = sample_idx[i]
            /\ sample_pred[i].idx = sample_idx[i]
            /\ sample_target[i].val = ValueAt(bp_target, sample_idx[i])
            /\ sample_pred[i].val = ValueAt(bp_pred, sample_idx[i])
       /\ LET top == head(sort_values(sample_pred, sort_ties), NTopWells)
              rows == selected_rows(sample_target, sample_pred, NTopWells, sort_ties)
          IN  \A r \in 1..Len(rows) :
                /\ \E t \in 1..Len(top) : top[t].idx = rows[r].idx
                /\ rows[r].val = ValueAt(bp_target, rows[r].idx)

C8_Witness ==
    /\ IterationDone
    /\ sample_idx[1] # sample_idx[2]
    /\ sample_idx # indices
    /\ sample_pred[1].val # sample_pred[2].val
    /\ sample_target[1].val # sample_target[2].val

\* --------------------------------------------------------------- C7
RECURSIVE SeqToSet(_)
SeqToSet(q) == IF q = <<>> THEN {} ELSE {Head(q)} \cup SeqToSet(Tail(q))

\* what C7 says apart from the size of the validation set
C7_SplitAndPairing ==
    LET train == SeqToSet(tr_split.train)
        valid == SeqToSet(tr_split.valid)
    IN  /\ train \cap valid = {}
        /\ train \cup valid = 1..tr_df.n
        /\ Len(tr_split.train) + Len(tr_split.valid) = tr_df.n
        /\ tr_ret.model.fit_index = train
        /\ Index(tr_ret.target_valid) = tr_split.valid
        /\ Index(tr_ret.preds_valid) = Index(tr_ret.target_valid)
        /\ \A i \in 1..Len(tr_split.valid) :
             /\ tr_ret.target_valid[i].val = tr_df.product[tr_split.valid[i]]
             /\ tr_ret.preds_valid[i].val =
                    tr_ret.model.base + tr_ret.model.slope * tr_df.f[tr_split.valid[i]]

\* C7 (as stated): the training and validation rows are disjoint and cover
\* every row, the validation set is 25% of the rows, the model is fitted on
\* the training rows only, and preds_valid carries the labels of
\* target_valid in the same order.
C7_QuarterValidation ==
    tr_state = "ret" => (C7_SplitAndPairing /\ 4 * Len(tr_split.valid) = tr_df.n)

\* C7 (amended): as above, the validation set being 25% of the rows rounded
\* up to a whole row.
C7_CeilQuarterValidation ==
    tr_state = "ret"
    => /\ C7_SplitAndPairing
       /\ 4 * Len(tr_split.valid) >= tr_df.n
       /\ 4 * (Len(tr_split.valid) - 1) < tr_df.n

C7_Witness ==
    /\ tr_state = "ret"
    /\ tr_df.n = 5
    /\ Len(tr_split.valid) = 2
    /\ tr_split.valid[1] > tr_split.valid[2]
    /\ tr_ret.model.slope # 0
    /\ tr_ret.preds_valid[1].val # tr_ret.preds_valid[2].val

\* ------------------------------------------------------- C3, C5, C6, C9
\* the row of summary_rows of a region
SummaryOf(region_name) ==
    summary_rows[CHOOSE i \in 1..Len(summary_rows) : summary_rows[i].region = region_name]

\* a >= b for fractions with positive denominators
FracGeq(a, b) == a.num * b.den >= b.num * a.den

\* C3: a region's estimated risk takes part in the ranking: whatever the risk
\* limit, no region over the limit is printed above a region within it.
C3_RiskConstrainedRanking ==
    pc = "done"
    => \A k \in 1..Len(printed) :
         LET limit == printed[k].risk_pct
         IN  \A i, j \in 1..Len(printed) :
               i < j => ~(printed[i].risk_pct > limit /\ printed[j].risk_pct <= limit)

\* how far main has come: one more with every step
BootProgress ==
    CASE bp_state = "idle" -> 0
      [] bp_state = "loop" -> 1 + Len(profits)
      [] bp_state = "ret"  -> NIter + 2

Progress ==
    (IF pc = "load" THEN 0 ELSE 1) + Len(region_results)
    + Len(summary_rows) * (NIter + 3) + BootProgress + (IF pc = "done" THEN 1 ELSE 0)

TotalSteps == 2 + Len(RegionNames) * (NIter + 4)

\* main can take a step: the guard of the step that is next holds
CanStep ==
    CASE pc = "load"   -> TRUE
      [] pc = "train"  ->
           /\ Len(region_results) < Len(data_by_region)
           /\ LET n == data_by_region[Len(region_results) + 1].n
              IN  \E perm \in Shuffles[n] : CanSplit(n, perm)
      [] pc = "bootstrap" /\ bp_state = "idle" -> Len(summary_rows) < Len(region_results)
      [] pc = "bootstrap" /\ bp_state = "loop" ->
           loop_continues(profits, NIter) =>
             /\ Len(indices) > 0
             /\ \E positions \in [1..NWellsInSample -> 1..Len(indices)] : CanDraw(positions)
      [] pc = "bootstrap" /\ bp_state = "ret" -> TRUE
      [] pc = "report" -> TRUE
      [] OTHER -> FALSE

C5_Inv ==
    /\ Progress <= TotalSteps
    /\ pc = "done" <=> Progress = TotalSteps
    /\ pc # "done" => CanStep
    /\ count.load <= 1
    /\ \A r \in 1..Len(RegionNames) : count.train[r] <= 1 /\ count.boot[r] <= 1
    /\ (bp_state # "idle" \/ summary_rows # <<>>) =>
          /\ Len(region_results) = Len(RegionNames)
          /\ \A r \in 1..Len(RegionNames) : count.train[r] = 1
    /\ bp_state = "ret" => Len(bp_ret.profits) = NIter /\ rng = NIter
    /\ \A r \in 1..Len(boot_log) : Len(boot_log[r].ret.profits) = NIter
    /\ pc = "done" =>
          /\ count.load = 1
          /\ \A r \in 1..Len(RegionNames) : count.train[r] = 1 /\ count.boot[r] = 1
          /\ Len(boot_log) = Len(RegionNames)

C5_Step ==
    /\ Progress' = Progress + 1
    /\ pc # "load" => data_by_region' = data_by_region
    /\ \A r \in 1..Len(region_results) :
         Len(region_results') >= r /\ region_results'[r] = region_results[r]

\* C5: main is a straight line of a fixed number of steps that ends: data is
\* loaded once, each region is trained once and all of them before any
\* bootstrap, each region is bootstrapped once with exactly n_iter
\* iterations, and no stage is entered again. Every step brings main one
\* step nearer to its end and main is never stuck before it.
C5_StraightLine == []C5_Inv /\ [][C5_Step]_vars

C5_Witness ==
    /\ pc = "done"
    /\ Len(boot_log) = 3
    /\ \A r \in 1..3 : Len(boot_log[r].ret.profits) = NIter /\ Len(boot_log[r].samples) = NIter
    /\ \A r \in 1..3 : count.train[r] = 1 /\ count.boot[r] = 1

C6_OneRowPerRegion ==
    /\ Len(printed) = Len(RegionNames)
    /\ \A r \in 1..Len(RegionNames) : \E i \in 1..Len(printed) : printed[i].region = RegionNames[r]

\* C6 (as stated): the table has one row per region and the rows are in
\* non-increasing order of the mean bootstrap profit, so that the first row
\* has the greatest mean profit of all regions.
C6_SortedByMean ==
    pc = "done"
    => /\ C6_OneRowPerRegion
       /\ \A i, j \in 1..Len(printed) :
            i < j => FracGeq(SummaryOf(printed[i].region).mean, SummaryOf(printed[j].region).mean)
       /\ \A r \in 1..Len(summary_rows) :
            FracGeq(SummaryOf(printed[1].region).mean, summary_rows[r].mean)

\* the mean profit of a region in cents, as a fraction
MeanInCents(region_name) ==
    LET m == SummaryOf(region_name).mean IN [num |-> m.num, den |-> m.den * UnitsPerCent]

\* C6 (amended): the table has one row per region and the rows are in
\* non-increasing order of the mean profit rounded to two decimals, the
\* value printed; the first row has the greatest rounded mean, and a row's
\* exact mean is at most one cent below that of any row under it.
C6_SortedByRoundedMean ==
    pc = "done"
    => /\ C6_OneRowPerRegion
       /\ \A i \in 1..Len(printed) :
            LET m == MeanInCents(printed[i].region)
            IN  /\ 2 * printed[i].mean * m.den <= 2 * m.num + m.den
                /\ 2 * printed[i].mean * m.den >= 2 * m.num - m.den
       /\ \A i, j \in 1..Len(printed) : i < j => printed[i].mean >= printed[j].mean
       /\ \A i, j \in 1..Len(printed) :
            i < j => LET a == MeanInCents(printed[i].region)
                         b == MeanInCents(printed[j].region)
                     IN  FracGeq([num |-> a.num + a.den, den |-> a.den], b)

C6_Witness ==
    /\ pc = "done"
    /\ \E i, j \in 1..Len(printed) :
         /\ i < j
         /\ printed[i].mean = printed[j].mean
         /\ ~FracGeq(SummaryOf(printed[i].region).mean, SummaryOf(printed[j].region).mean)

\* C9: two calls of bootstrap_profit with the same arguments and the same
\* random_state draw the same samples and return the same profits, mean,
\* interval and risk; and, main passing the same random_state every time,
\* regions whose validation sets carry the same labels are resampled with
\* the same sequence of labels.
C9_SameSeedSameSamples ==
    \A a, b \in 1..Len(boot_log) :
      LET x == boot_log[a]
          y == boot_log[b]
      IN  /\ x.seed = RANDOM_STATE
          /\ (x.seed = y.seed /\ Index(x.target) = Index(y.target)) => x.samples = y.samples
          /\ (x.seed = y.seed /\ x.target = y.target /\ x.pred = y.pred) => x.ret = y.ret

C9_Witness ==
    /\ Len(boot_log) = 3
    /\ boot_log[1].target = boot_log[2].target /\ boot_log[1].pred = boot_log[2].pred
    /\ boot_log[1].target # boot_log[3].target
    /\ boot_log[1].ret # boot_log[3].ret
    /\ Len(boot_log[1].samples) = NIter
    /\ boot_log[1].samples[1] # boot_log[1].samples[2]
    /\ boot_log[1].ret.profits[1] # boot_log[1].ret.profits[2]

====
